---- MODULE Spec2Model ----
(***************************************************************************)
(* The typed hdata access layer of weechat-rs (hdata.rs, hashtable.rs) and *)
(* the Sealed capsule (lib.rs), as a state machine over a model of the     *)
(* WeeChat host.  Text is a sequence of byte values, so that to_string,    *)
(* UTF-8 encoding, NUL stripping and the host's parsing are computed and   *)
(* not assumed to be inverse to each other.                                *)
(***************************************************************************)
EXTENDS Integers, Sequences, FiniteSets, TLC

VARIABLES
    kind,         \* host: the kind of field "v" in schema 1 (fixed by the host)
    cCharSigned,  \* build: whether std::os::raw::c_char is i8 (x86) or u8 (ARM)
    store,        \* host: store[o] = raw value of field "v" of object o
    hd,           \* plugin: the HData table it holds, or NoTable
    cur,          \* plugin: the HDataPointer it holds, or NoRef
    last,         \* the last call of the layer: inputs, foreign calls, result
    capsules,     \* the Sealed<T> values made: capsules[c] = [x, state, at, ...]
    redeemed      \* redeemed[c] = number of times capsule c was unsealed

vars == <<kind, cCharSigned, store, hd, cur, last, capsules, redeemed>>

hvars == <<kind, cCharSigned, store, hd, cur, last>>
cvars == <<capsules, redeemed>>

(***************************************************************************)
(* Bounds                                                                  *)
(***************************************************************************)
NObjects == 3          \* length of the host's linked list of objects
MaxCapsules == 2       \* capsules sealed in one behaviour
MaxWritten == 1        \* objects a plugin writes to while it also traverses

Objects == 1..NObjects
Null == 0
Counts == (0 - NObjects)..NObjects

(***************************************************************************)
(* Text and the conversions the code applies to it                         *)
(***************************************************************************)
\* LossyCString::new: CString::new fails on an embedded NUL, and then the
\* NULs are removed.
LossyCString(t) ==
    IF \A i \in 1..Len(t) : t[i] # 0
    THEN t
    ELSE SelectSeq(t, LAMBDA b : b # 0)

RECURSIVE Digits(_)
Digits(n) ==
    IF n < 10 THEN <<48 + n>> ELSE Digits(n \div 10) \o <<48 + (n % 10)>>

\* i32::to_string, i64::to_string, usize::to_string: decimal text.
IntToString(n) ==
    IF n < 0 THEN <<45>> \o Digits(0 - n) ELSE Digits(n)

\* char::to_string: the UTF-8 encoding of the scalar value.
CharToString(c) ==
    IF c < 128 THEN <<c>>
    ELSE IF c < 2048 THEN <<192 + (c \div 64), 128 + (c % 64)>>
    ELSE IF c < 65536
         THEN <<224 + (c \div 4096), 128 + ((c \div 64) % 64), 128 + (c % 64)>>
    ELSE <<240 + (c \div 262144), 128 + ((c \div 4096) % 64),
           128 + ((c \div 64) % 64), 128 + (c % 64)>>

\* DateTime<Utc>::timestamp: whole seconds, the sub-second part is dropped.
Timestamp(dt) == dt.secs

\* NaiveDateTime::from_timestamp(secs, 0) wrapped by DateTime::from_utc.
FromTimestamp(secs) == [secs |-> secs, nanos |-> 0]


\* CStr::to_string_lossy: well-formed UTF-8 is kept, every other byte is
\* replaced by U+FFFD (EF BF BD).
Cont(b) == b >= 128 /\ b <= 191

RECURSIVE ToStringLossy(_)
ToStringLossy(b) ==
    IF Len(b) = 0 THEN <<>>
    ELSE IF b[1] < 128 THEN <<b[1]>> \o ToStringLossy(Tail(b))
    ELSE IF b[1] >= 194 /\ b[1] <= 223 /\ Len(b) >= 2 /\ Cont(b[2])
         THEN <<b[1], b[2]>> \o ToStringLossy(SubSeq(b, 3, Len(b)))
    ELSE IF b[1] >= 224 /\ b[1] <= 239 /\ Len(b) >= 3 /\ Cont(b[2]) /\ Cont(b[3])
            /\ (b[1] = 224 => b[2] >= 160) /\ (b[1] = 237 => b[2] <= 159)
         THEN <<b[1], b[2], b[3]>> \o ToStringLossy(SubSeq(b, 4, Len(b)))
    ELSE <<239, 191, 189>> \o ToStringLossy(Tail(b))

(***************************************************************************)
(* Values of the layer                                                     *)
(***************************************************************************)
Some(v) == [tag |-> "Some", val |-> v]
None == [tag |-> "None"]
Panic == [tag |-> "panic"]
Count(n) == [tag |-> "count", val |-> n]

Call(f, a) == [fn |-> f, args |-> a]

\* struct HData { weechat_ptr, object, ptr }
HData(w, o, p) == [weechat_ptr |-> w, object |-> o, ptr |-> p]
\* struct HDataPointer { ptr, weechat }
HDataPointer(p, w) == [ptr |-> p, weechat |-> w]

NoTable == [none |-> TRUE]
NoRef == [none |-> TRUE]
NoSide == [none |-> TRUE]

\* The impls of HDataType, and the Kind Tag each one checks for.
Impls == {"Cow", "String", "char", "i64", "i32", "DateTime", "HDataPointer"}
\* The six value types a plugin names; a String read or write goes through
\* the Cow impl.
Types == Impls \ {"Cow"}

KindOf(T) ==
    CASE T = "Cow" -> "string"
      [] T = "String" -> "string"
      [] T = "char" -> "char"
      [] T = "i64" -> "long"
      [] T = "i32" -> "integer"
      [] T = "DateTime" -> "time"
      [] T = "HDataPointer" -> "pointer"

(***************************************************************************)
(* The host: schemas, one typed field per object, a linked list of objects *)
(***************************************************************************)
Kinds == {"string", "integer", "long", "char", "time", "pointer"}
NoKind == "none"            \* hdata_get_var_type: the name is not a variable

Handles == {1, 2}           \* t_weechat_plugin pointers
FieldV == <<118>>           \* "v"
FieldNames == {<<118>>, <<118, 0>>, <<120>>}          \* "v", "v\0", "x"
SchemaNames == {<<98>>, <<98, 0>>, <<108>>, <<122>>}  \* "b", "b\0", "l", "z"
\* The host's part in a write: what hashtable_new returns (null or a
\* side-table) and whether hdata_update applies the update.
HostAnswers == {[answer |-> 0, allow |-> FALSE], [answer |-> 9, allow |-> FALSE],
                [answer |-> 9, allow |-> TRUE]}

NullStr == [null |-> TRUE, bytes |-> <<>>]
Str(b) == [null |-> FALSE, bytes |-> b]

\* hdata_get: schema "b" has field "v"; schema "l" has no variable at all.
HostHDataGet(name) ==
    IF name = <<98>> THEN 1 ELSE IF name = <<108>> THEN 2 ELSE Null

HostGetVarType(schema, name) ==
    IF schema = 1 /\ name = FieldV THEN kind ELSE NoKind

HostDefault(k) ==
    CASE k = "string" -> NullStr
      [] OTHER -> 0

\* The field of each object when the plugin starts.
InitRaw(k, o) ==
    CASE k = "string" ->
            IF o % 3 = 1 THEN Str(<<99>>) ELSE IF o % 3 = 2 THEN NullStr ELSE Str(<<>>)
      [] k = "char" -> IF o % 3 = 1 THEN 65 ELSE IF o % 3 = 2 THEN 200 ELSE 0
      [] k = "integer" -> o
      [] k = "long" -> 1000 * o
      [] k = "time" -> 1600000000 + o
      [] k = "pointer" -> IF o < NObjects THEN o + 1 ELSE Null
      [] OTHER -> 0

\* hdata_string, hdata_char, hdata_integer, hdata_long, hdata_time,
\* hdata_pointer: the stored value for a variable of that kind, the null
\* value otherwise.
HostRead(k, schema, object, name) ==
    IF HostGetVarType(schema, name) = k /\ object \in Objects
    THEN store[object]
    ELSE HostDefault(k)

\* hdata_move: count steps along the list; null when it leaves the list.
HostMove(schema, pointer, count) ==
    IF schema \in {1, 2} /\ pointer \in Objects /\ (pointer + count) \in Objects
    THEN pointer + count
    ELSE Null

IsDigit(b) == b >= 48 /\ b <= 57

RECURSIVE DigitsValue(_)
DigitsValue(t) ==
    IF Len(t) = 0 THEN 0
    ELSE 10 * DigitsValue(SubSeq(t, 1, Len(t) - 1)) + (t[Len(t)] - 48)

ParseDecimal(t) ==
    LET neg == Len(t) > 0 /\ t[1] = 45
        d == IF neg THEN Tail(t) ELSE t
    IN IF Len(d) > 0 /\ \A i \in 1..Len(d) : IsDigit(d[i])
       THEN [ok |-> TRUE, val |-> IF neg THEN 0 - DigitsValue(d) ELSE DigitsValue(d)]
       ELSE [ok |-> FALSE, val |-> 0]

\* How the host turns the text of a side-table entry into a value of the
\* field's kind.
HostParse(k, t) ==
    CASE k = "string" -> [ok |-> TRUE, val |-> Str(t)]
      [] k = "char" -> [ok |-> TRUE, val |-> IF Len(t) = 0 THEN 0 ELSE t[1]]
      [] k \in {"integer", "long", "time"} -> ParseDecimal(t)
      [] k = "pointer" ->
            LET p == ParseDecimal(t) IN [ok |-> p.ok /\ p.val >= 0, val |-> p.val]
      [] OTHER -> [ok |-> FALSE, val |-> 0]

\* hdata_update: applies every entry of the side-table it can, and reports
\* how many it applied.  allow = FALSE is the host refusing the update.
RECURSIVE HostUpdate(_, _, _, _, _)
HostUpdate(st, schema, object, entries, allow) ==
    IF Len(entries) = 0 THEN [count |-> 0, store |-> st]
    ELSE LET e == entries[1]
             k == HostGetVarType(schema, e[1])
             p == HostParse(k, e[2])
             hit == allow /\ object \in Objects /\ k \in Kinds /\ p.ok
             st1 == IF hit THEN [st EXCEPT ![object] = p.val] ELSE st
             rest == HostUpdate(st1, schema, object, Tail(entries), allow)
         IN [count |-> rest.count + (IF hit THEN 1 ELSE 0), store |-> rest.store]

(***************************************************************************)
(* hashtable.rs                                                            *)
(***************************************************************************)
\* impl ToString for HashtableItemType
ItemTypeToString(t) ==
    CASE t = "Integer" -> "integer"
      [] t = "String" -> "string"
      [] t = "Pointer" -> "pointer"
      [] t = "Buffer" -> "buffer"
      [] t = "Time" -> "time"

\* Weechat::new_hashtable.  answer is what the host's hashtable_new returns.
\* The result carries the side-table as the host holds it.
new_hashtable(weechat, size, key_type, value_type, answer) ==
    LET c == Call("hashtable_new",
                  <<size, ItemTypeToString(key_type), ItemTypeToString(value_type)>>)
    IN IF answer = Null
       THEN [ret |-> None, calls |-> <<c>>]
       ELSE [ret |-> Some([weechat_ptr |-> weechat, ptr |-> answer,
                           key_type |-> ItemTypeToString(key_type),
                           value_type |-> ItemTypeToString(value_type),
                           entries |-> <<>>]),
             calls |-> <<c>>]

\* Hashtable::set: one hashtable_set with both texts made host-compatible.
Hashtable_set(hashtable, key, value) ==
    LET k == LossyCString(key)
        v == LossyCString(value)
    IN [table |-> [hashtable EXCEPT !.entries = Append(@, <<k, v>>)],
        calls |-> <<Call("hashtable_set", <<hashtable.ptr, k, v>>)>>]

(***************************************************************************)
(* hdata.rs: HDataType::hdata_value, one impl per type                     *)
(***************************************************************************)
TypeQuery(hdata, n) == <<Call("hdata_get_var_type", <<hdata.ptr, n>>)>>
FieldRead(f, hdata, n) == <<Call(f, <<hdata.ptr, hdata.object, n>>)>>

hdata_value_Cow(hdata, name) ==
    LET n == LossyCString(name) IN
    IF HostGetVarType(hdata.ptr, n) # "string"
    THEN [ret |-> None, calls |-> TypeQuery(hdata, n)]
    ELSE LET r == HostRead("string", hdata.ptr, hdata.object, n)
         IN [ret |-> IF r.null THEN None ELSE Some(ToStringLossy(r.bytes)),
             calls |-> TypeQuery(hdata, n) \o FieldRead("hdata_string", hdata, n)]

\* Option::map(Cow::into_owned) keeps the text.
hdata_value_String(hdata, name) == hdata_value_Cow(hdata, name)

\* c_char.try_into().map(|ch: u8| ch as char).ok(): a negative c_char has
\* no u8.
hdata_value_char(hdata, name) ==
    LET n == LossyCString(name) IN
    IF HostGetVarType(hdata.ptr, n) # "char"
    THEN [ret |-> None, calls |-> TypeQuery(hdata, n)]
    ELSE LET b == HostRead("char", hdata.ptr, hdata.object, n)
             c_char == IF cCharSigned /\ b >= 128 THEN b - 256 ELSE b
         IN [ret |-> IF c_char >= 0 THEN Some(c_char) ELSE None,
             calls |-> TypeQuery(hdata, n) \o FieldRead("hdata_char", hdata, n)]

\* hdata_value for i64 answering from the value the field had when the
\* plugin started, as a cache filled at start would.
hdata_value_i64_cached(hdata, name) ==
    LET n == LossyCString(name) IN
    IF HostGetVarType(hdata.ptr, n) # "long"
    THEN [ret |-> None, calls |-> TypeQuery(hdata, n)]
    ELSE [ret |-> Some(IF hdata.object \in Objects
                       THEN InitRaw(kind, hdata.object) ELSE HostDefault("long")),
          calls |-> TypeQuery(hdata, n) \o FieldRead("hdata_long", hdata, n)]

hdata_value_i64(hdata, name) ==
    LET n == LossyCString(name) IN
    IF HostGetVarType(hdata.ptr, n) # "long"
    THEN [ret |-> None, calls |-> TypeQuery(hdata, n)]
    ELSE [ret |-> Some(HostRead("long", hdata.ptr, hdata.object, n)),
          calls |-> TypeQuery(hdata, n) \o FieldRead("hdata_long", hdata, n)]

\* hdata_value for i32 without the comparison against WEECHAT_HDATA_INTEGER.
hdata_value_i32_unchecked(hdata, name) ==
    LET n == LossyCString(name) IN
    [ret |-> Some(HostRead("integer", hdata.ptr, hdata.object, n)),
     calls |-> TypeQuery(hdata, n) \o FieldRead("hdata_integer", hdata, n)]

hdata_value_i32(hdata, name) ==
    LET n == LossyCString(name) IN
    IF HostGetVarType(hdata.ptr, n) # "integer"
    THEN [ret |-> None, calls |-> TypeQuery(hdata, n)]
    ELSE [ret |-> Some(HostRead("integer", hdata.ptr, hdata.object, n)),
          calls |-> TypeQuery(hdata, n) \o FieldRead("hdata_integer", hdata, n)]

hdata_value_DateTime(hdata, name) ==
    LET n == LossyCString(name) IN
    IF HostGetVarType(hdata.ptr, n) # "time"
    THEN [ret |-> None, calls |-> TypeQuery(hdata, n)]
    ELSE LET unix_time == HostRead("time", hdata.ptr, hdata.object, n)
         IN [ret |-> Some(FromTimestamp(unix_time)),
             calls |-> TypeQuery(hdata, n) \o FieldRead("hdata_time", hdata, n)]

hdata_value_HDataPointer(hdata, name) ==
    LET n == LossyCString(name) IN
    IF HostGetVarType(hdata.ptr, n) # "pointer"
    THEN [ret |-> None, calls |-> TypeQuery(hdata, n)]
    ELSE [ret |-> Some(HDataPointer(HostRead("pointer", hdata.ptr, hdata.object, n),
                                    hdata.weechat_ptr)),
          calls |-> TypeQuery(hdata, n) \o FieldRead("hdata_pointer", hdata, n)]

\* HData::get_var::<T>: the trait dispatch on T.
get_var(T, hdata, name) ==
    CASE T = "Cow" -> hdata_value_Cow(hdata, name)
      [] T = "String" -> hdata_value_String(hdata, name)
      [] T = "char" -> hdata_value_char(hdata, name)
      [] T = "i64" -> hdata_value_i64(hdata, name)
      [] T = "i32" -> hdata_value_i32(hdata, name)
      [] T = "DateTime" -> hdata_value_DateTime(hdata, name)
      [] T = "HDataPointer" -> hdata_value_HDataPointer(hdata, name)

(***************************************************************************)
(* hdata.rs: HDataType::hdata_set_value, one impl per type                 *)
(***************************************************************************)
\* The body the seven impls share: new_hashtable(1, String, value_type)
\* .unwrap(), hashtable.set(name, text), hdata_update(ptr, object, table).
\* answer and allow are the host's part: the side-table it hands out and
\* whether it applies the update.
\* The shared body with the arguments of hdata_update exchanged: the
\* backing object where the schema handle belongs.
StageAndCommit_swapped(hdata, name, text, value_type, answer, allow) ==
    LET made == new_hashtable(hdata.weechat_ptr, 1, "String", value_type, answer) IN
    IF made.ret.tag = "None"
    THEN [ret |-> Panic, calls |-> made.calls, staged |-> NoSide, store |-> store]
    ELSE LET set == Hashtable_set(made.ret.val, name, text)
             up == HostUpdate(store, hdata.object, hdata.ptr, set.table.entries, allow)
         IN [ret |-> Count(up.count),
             calls |-> made.calls \o set.calls
                       \o <<Call("hdata_update",
                                 <<hdata.object, hdata.ptr, set.table.ptr>>)>>,
             staged |-> set.table,
             store |-> up.store]

StageAndCommit(hdata, name, text, value_type, answer, allow) ==
    LET made == new_hashtable(hdata.weechat_ptr, 1, "String", value_type, answer) IN
    IF made.ret.tag = "None"
    THEN [ret |-> Panic, calls |-> made.calls, staged |-> NoSide, store |-> store]
    ELSE LET set == Hashtable_set(made.ret.val, name, text)
             up == HostUpdate(store, hdata.ptr, hdata.object, set.table.entries, allow)
         IN [ret |-> Count(up.count),
             calls |-> made.calls \o set.calls
                       \o <<Call("hdata_update",
                                 <<hdata.ptr, hdata.object, set.table.ptr>>)>>,
             staged |-> set.table,
             store |-> up.store]

hdata_set_value_Cow(hdata, name, value, answer, allow) ==
    StageAndCommit(hdata, name, value, "String", answer, allow)

\* Cow::from(value) keeps the text.
hdata_set_value_String(hdata, name, value, answer, allow) ==
    hdata_set_value_Cow(hdata, name, value, answer, allow)

hdata_set_value_char(hdata, name, value, answer, allow) ==
    StageAndCommit(hdata, name, CharToString(value), "String", answer, allow)

\* hdata_set_value for i64 with the value type of the string impls.
hdata_set_value_i64_string(hdata, name, value, answer, allow) ==
    StageAndCommit(hdata, name, IntToString(value), "String", answer, allow)

hdata_set_value_i64(hdata, name, value, answer, allow) ==
    StageAndCommit(hdata, name, IntToString(value), "Integer", answer, allow)

\* hdata_set_value for i32 with the kind check of hdata_value in front.
hdata_set_value_i32_checked(hdata, name, value, answer, allow) ==
    LET n == LossyCString(name) IN
    IF HostGetVarType(hdata.ptr, n) # "integer"
    THEN [ret |-> Count(0), calls |-> TypeQuery(hdata, n), staged |-> NoSide,
          store |-> store]
    ELSE LET r == StageAndCommit(hdata, name, IntToString(value), "Integer", answer, allow)
         IN [r EXCEPT !.calls = TypeQuery(hdata, n) \o @]

hdata_set_value_i32(hdata, name, value, answer, allow) ==
    StageAndCommit(hdata, name, IntToString(value), "Integer", answer, allow)

hdata_set_value_DateTime(hdata, name, value, answer, allow) ==
    StageAndCommit(hdata, name, IntToString(Timestamp(value)), "Integer", answer, allow)

hdata_set_value_HDataPointer(hdata, name, value, answer, allow) ==
    StageAndCommit(hdata, name, IntToString(value.ptr), "Integer", answer, allow)

\* HData::update_var::<T>: the trait dispatch on T.
update_var(T, hdata, name, value, answer, allow) ==
    CASE T = "Cow" -> hdata_set_value_Cow(hdata, name, value, answer, allow)
      [] T = "String" -> hdata_set_value_String(hdata, name, value, answer, allow)
      [] T = "char" -> hdata_set_value_char(hdata, name, value, answer, allow)
      [] T = "i64" -> hdata_set_value_i64(hdata, name, value, answer, allow)
      [] T = "i32" -> hdata_set_value_i32(hdata, name, value, answer, allow)
      [] T = "DateTime" -> hdata_set_value_DateTime(hdata, name, value, answer, allow)
      [] T = "HDataPointer" ->
            hdata_set_value_HDataPointer(hdata, name, value, answer, allow)

(***************************************************************************)
(* hdata.rs: HasHData::get_hdata and HDataPointer::advance                 *)
(***************************************************************************)
\* impl HasHData for Buffer: self is a Buffer { weechat, ptr }.
get_hdata_Buffer(self, name) ==
    LET n == LossyCString(name)
        hdata == HostHDataGet(n)
        c == <<Call("hdata_get", <<self.weechat, n>>)>>
    IN IF hdata = Null
       THEN [ret |-> None, calls |-> c]
       ELSE [ret |-> Some(HData(self.weechat, self.ptr, hdata)), calls |-> c]

\* get_hdata with the schema handle and the backing object exchanged.
get_hdata_HDataPointer_swapped(self, name) ==
    LET n == LossyCString(name)
        hdata == HostHDataGet(n)
        c == <<Call("hdata_get", <<self.weechat, n>>)>>
    IN IF hdata = Null
       THEN [ret |-> None, calls |-> c]
       ELSE [ret |-> Some(HData(self.weechat, hdata, self.ptr)), calls |-> c]

\* impl HasHData for HDataPointer
get_hdata_HDataPointer(self, name) ==
    LET n == LossyCString(name)
        hdata == HostHDataGet(n)
        c == <<Call("hdata_get", <<self.weechat, n>>)>>
    IN IF hdata = Null
       THEN [ret |-> None, calls |-> c]
       ELSE [ret |-> Some(HData(self.weechat, self.ptr, hdata)), calls |-> c]

\* advance giving the new reference the table's handle, not the original's.
advance_table_handle(self, hdata, count) ==
    LET new_ptr == HostMove(hdata.ptr, self.ptr, count)
        c == <<Call("hdata_move", <<hdata.ptr, self.ptr, count>>)>>
    IN IF new_ptr = Null
       THEN [ret |-> None, calls |-> c, self |-> self, hdata |-> hdata]
       ELSE [ret |-> Some(HDataPointer(new_ptr, hdata.weechat_ptr)), calls |-> c,
             self |-> self, hdata |-> hdata]

\* advance moving from the table's backing object, not from the reference.
advance_from_object(self, hdata, count) ==
    LET new_ptr == HostMove(hdata.ptr, hdata.object, count)
        c == <<Call("hdata_move", <<hdata.ptr, hdata.object, count>>)>>
    IN IF new_ptr = Null
       THEN [ret |-> None, calls |-> c, self |-> self, hdata |-> hdata]
       ELSE [ret |-> Some(HDataPointer(new_ptr, self.weechat)), calls |-> c,
             self |-> self, hdata |-> hdata]

\* HDataPointer::advance
advance(self, hdata, count) ==
    LET new_ptr == HostMove(hdata.ptr, self.ptr, count)
        c == <<Call("hdata_move", <<hdata.ptr, self.ptr, count>>)>>
    IN IF new_ptr = Null
       THEN [ret |-> None, calls |-> c, self |-> self, hdata |-> hdata]
       ELSE [ret |-> Some(HDataPointer(new_ptr, self.weechat)), calls |-> c,
             self |-> self, hdata |-> hdata]

(***************************************************************************)
(* The plugin and the host as a state machine                              *)
(***************************************************************************)
\* The buffers the plugin is handed: Buffer { weechat, ptr }, the first
\* object of the host's list, seen through either plugin handle.
Buffers == {[weechat |-> w, ptr |-> 1] : w \in Handles}

\* The values a plugin passes to update_var::<T>.
Values(T) ==
    CASE T \in {"Cow", "String"} -> {<<99, 111>>, <<97, 0, 98>>}
      [] T = "char" -> {65, 233}
      [] T = "i64" -> {0 - 12}
      [] T = "i32" -> {42}
      [] T = "DateTime" -> {[secs |-> 1600000000, nanos |-> 0],
                            [secs |-> 1600000009, nanos |-> 5]}
      [] T = "HDataPointer" -> IF cur = NoRef THEN {} ELSE {cur}

NoCall == [op |-> "none", T |-> "-", self |-> NoRef, hdata |-> NoTable,
           name |-> <<>>, value |-> 0, count |-> 0,
           ret |-> None, calls |-> <<>>, staged |-> NoSide]

Init ==
    /\ kind \in Kinds
    /\ cCharSigned \in (IF kind = "char" THEN BOOLEAN ELSE {TRUE})
    /\ store = [o \in Objects |-> InitRaw(kind, o)]
    /\ hd = NoTable
    /\ cur = NoRef
    /\ last = NoCall
    /\ capsules = <<>>
    /\ redeemed = <<>>

\* buffer.get_hdata(name)
GetHDataBuffer(b, name) ==
    /\ \E r \in {get_hdata_Buffer(b, name)} :
       last' = [NoCall EXCEPT !.op = "get_hdata", !.T = "Buffer", !.self = b,
                              !.name = name, !.ret = r.ret, !.calls = r.calls]
    /\ UNCHANGED <<kind, cCharSigned, store, hd, cur>>
    /\ UNCHANGED cvars

\* cur.get_hdata(name)
GetHDataPointer(name) ==
    /\ cur # NoRef
    /\ \E r \in {get_hdata_HDataPointer(cur, name)} :
       last' = [NoCall EXCEPT !.op = "get_hdata", !.T = "HDataPointer", !.self = cur,
                              !.name = name, !.ret = r.ret, !.calls = r.calls]
    /\ UNCHANGED <<kind, cCharSigned, store, hd, cur>>
    /\ UNCHANGED cvars

\* hd.get_var::<T>(name)
GetVar(T, name) ==
    /\ hd # NoTable
    /\ \E r \in {get_var(T, hd, name)} :
       last' = [NoCall EXCEPT !.op = "get_var", !.T = T, !.hdata = hd,
                              !.name = name, !.ret = r.ret, !.calls = r.calls]
    /\ UNCHANGED <<kind, cCharSigned, store, hd, cur>>
    /\ UNCHANGED cvars

\* hd.update_var::<T>(name, value)
UpdateVar(T, name, value, answer, allow) ==
    /\ hd # NoTable
    /\ \E r \in {update_var(T, hd, name, value, answer, allow)} :
       /\ last' = [NoCall EXCEPT !.op = "update_var", !.T = T, !.hdata = hd,
                                 !.name = name, !.value = value, !.ret = r.ret,
                                 !.calls = r.calls, !.staged = r.staged]
       /\ store' = r.store
    /\ UNCHANGED <<kind, cCharSigned, hd, cur>>
    /\ UNCHANGED cvars

\* cur.advance(&hd, count)
Advance(count) ==
    /\ hd # NoTable
    /\ cur # NoRef
    /\ \E r \in {advance(cur, hd, count)} :
       /\ last' = [NoCall EXCEPT !.op = "advance", !.self = cur, !.hdata = hd,
                                 !.count = count, !.ret = r.ret, !.calls = r.calls]
       /\ cur' = r.self
       /\ hd' = r.hdata
    /\ UNCHANGED <<kind, cCharSigned, store>>
    /\ UNCHANGED cvars

\* The plugin binds the table or reference the last call returned.
Keep ==
    /\ last.ret.tag = "Some"
    /\ \/ /\ last.op = "get_hdata"
          /\ hd' = last.ret.val
          /\ cur' = cur
       \/ /\ last.op = "advance" \/ (last.op = "get_var" /\ last.T = "HDataPointer")
          /\ cur' = last.ret.val
          /\ hd' = hd
    /\ UNCHANGED <<kind, cCharSigned, store, last>>
    /\ UNCHANGED cvars

\* Typed reads and writes on the tables of the plugin's buffer.
Next ==
    \/ \E b \in Buffers, name \in SchemaNames : GetHDataBuffer(b, name)
    \/ \E T \in Types, name \in FieldNames : GetVar(T, name)
    \/ \E T \in Types, name \in FieldNames, h \in HostAnswers :
          \E value \in Values(T) : UpdateVar(T, name, value, h.answer, h.allow)
    \/ Keep

Spec == Init /\ [][Next]_vars

\* Traversal: tables and references opened from the buffer, from fields
\* and from each other.
NextTraverse ==
    \/ \E b \in Buffers, name \in SchemaNames : GetHDataBuffer(b, name)
    \/ \E name \in SchemaNames : GetHDataPointer(name)
    \/ \E T \in Types, name \in FieldNames : GetVar(T, name)
    \/ \E count \in Counts : Advance(count)
    \/ Keep

SpecTraverse == Init /\ [][NextTraverse]_vars

\* The values the host itself gives a field of each kind while the plugin
\* runs.
HostValues(k) ==
    CASE k = "string" -> {Str(<<100>>), NullStr}
      [] k = "char" -> {66, 200}
      [] k = "integer" -> {77}
      [] k = "long" -> {7000}
      [] k = "time" -> {1600000100}
      [] k = "pointer" -> {1, Null}

\* The host changes the field of one of its objects between two calls of
\* the plugin.
HostSet(o, v) ==
    /\ store[o] # v
    /\ store' = [store EXCEPT ![o] = v]
    /\ last' = [NoCall EXCEPT !.op = "host_set", !.value = v]
    /\ UNCHANGED <<kind, cCharSigned, hd, cur>>
    /\ UNCHANGED cvars

\* Typed reads interleaved with the host's own changes of the fields.
NextLive ==
    \/ \E b \in Buffers, name \in SchemaNames : GetHDataBuffer(b, name)
    \/ \E T \in Types, name \in FieldNames : GetVar(T, name)
    \/ \E o \in Objects : \E v \in HostValues(kind) : HostSet(o, v)
    \/ Keep

SpecLive == Init /\ [][NextLive]_vars

\* The objects whose field no longer holds its starting value.
Written == {o \in Objects : store[o] # InitRaw(kind, o)}

\* hd.update_var::<T>(name, value) by a plugin that writes to the fields of
\* at most MaxWritten objects.
UpdateVarSome(T, name, value, answer, allow) ==
    /\ hd # NoTable
    /\ Cardinality(Written \cup {hd.object}) <= MaxWritten
    /\ UpdateVar(T, name, value, answer, allow)

\* Everything a plugin does with tables and references: opening, reading,
\* writing, moving.
NextAll ==
    \/ \E b \in Buffers, name \in SchemaNames : GetHDataBuffer(b, name)
    \/ \E name \in SchemaNames : GetHDataPointer(name)
    \/ \E T \in Types, name \in FieldNames : GetVar(T, name)
    \/ \E T \in Types, name \in {FieldV, <<120>>}, h \in HostAnswers :
          \E value \in Values(T) : UpdateVarSome(T, name, value, h.answer, h.allow)
    \/ \E count \in Counts : Advance(count)
    \/ Keep

SpecAll == Init /\ [][NextAll]_vars

(***************************************************************************)
(* lib.rs: Sealed<T>                                                       *)
(***************************************************************************)
Threads == {"main", "bg1", "bg2"}
Inner == {"a", "b", "c"}     \* the values sealed

\* The &Weechat references a context can present.  Weechat is !Send: only
\* the main context has one.
Proofs(t) == IF t = "main" THEN {"weechat"} ELSE {}

\* unseal without its `_: &Weechat` parameter: any context can call it.
UnsealArgs_no_token(t) == {"unit"}

\* What thread t can pass for unseal's parameter `_: &weechat::Weechat`.
UnsealArgs(t) == Proofs(t)

\* pub struct Sealed<T>(T): the tuple constructor behind the `sealed`
\* functions.
Sealed(x) == [inner |-> x]

\* unseal taking &self: the capsule outlives the call.
unseal_by_ref(self, proof) == [ret |-> self.inner, self |-> "kept"]

\* Sealed::unseal(self, _: &Weechat) -> T: returns self.0; self is moved
\* into the call and is gone after it.
unseal(self, proof) == [ret |-> self.inner, self |-> "moved"]

\* The main context seals x.
Seal(x) ==
    /\ Len(capsules) < MaxCapsules
    /\ capsules' = Append(capsules, [x |-> x, cell |-> Sealed(x), state |-> "Sealed",
                                     at |-> "main", seen |-> {"main"},
                                     got |-> "-", by |-> "-"])
    /\ redeemed' = Append(redeemed, 0)
    /\ UNCHANGED hvars

\* unsafe impl Send for Sealed<T>: a sealed capsule is moved to thread t.
Send(c, t) ==
    /\ capsules[c].state = "Sealed"
    /\ capsules[c].at # t
    /\ capsules' = [capsules EXCEPT ![c].at = t, ![c].seen = @ \cup {t}]
    /\ UNCHANGED redeemed
    /\ UNCHANGED hvars

\* Thread t, which owns capsule c, calls c.unseal(proof).
Unseal(c, t) ==
    /\ capsules[c].state = "Sealed"
    /\ capsules[c].at = t
    /\ \E proof \in UnsealArgs(t) :
         \E r \in {unseal(capsules[c].cell, proof)} :
            capsules' = [capsules EXCEPT
                            ![c].state = IF r.self = "moved" THEN "Unsealed" ELSE @,
                            ![c].got = r.ret,
                            ![c].by = t]
    /\ redeemed' = [redeemed EXCEPT ![c] = @ + 1]
    /\ UNCHANGED hvars

NextCapsule ==
    \/ \E x \in Inner : Seal(x)
    \/ \E c \in DOMAIN capsules, t \in Threads : Send(c, t)
    \/ \E c \in DOMAIN capsules, t \in Threads : Unseal(c, t)

SpecCapsule == Init /\ [][NextCapsule]_vars

(***************************************************************************)
(* Properties of typed reads and writes (specification Spec)               *)
(***************************************************************************)
Fns(calls) == [i \in 1..Len(calls) |-> calls[i].fn]

\* The kind the host reports for the field a call named, as it reaches the
\* host.
ReportedKind(call) == HostGetVarType(call.hdata.ptr, LossyCString(call.name))

Mismatch(call) == ReportedKind(call) # KindOf(call.T)

HostAccepted(call) == call.ret.tag = "count" /\ call.ret.val >= 1

\* C1: a typed read get_var::<T>(name) of a field whose host-reported kind
\* differs from T's Kind Tag returns None, and the only foreign call it makes
\* is the kind query: no kind-specific read, no decoded value.
C1_MismatchedReadIsAbsent ==
    (last.op = "get_var" /\ Mismatch(last)) =>
        /\ last.ret.tag = "None"
        /\ \A i \in 1..Len(last.calls) : last.calls[i].fn = "hdata_get_var_type"

\* The scenario of the spec: get::<i32> on a string field that exists.
C1_Witness ==
    /\ last.op = "get_var"
    /\ last.T = "i32"
    /\ last.name = FieldV
    /\ ReportedKind(last) = "string"
    /\ last.ret.tag = "None"

Storable(call) ==
    CASE call.T = "String" -> \A i \in 1..Len(call.value) : call.value[i] # 0
      [] call.T = "DateTime" -> call.value.nanos = 0
      [] call.T = "HDataPointer" -> call.value.weechat = call.hdata.weechat_ptr
      [] OTHER -> TRUE

\* C3 (as claimed, for a field of T's own kind and a value the field can
\* hold): a write update_var(field, v) the host accepts is read back by
\* get_var(field) on the same table, with nothing in between, as Some(v).
C3_RoundTrip ==
    (last.op = "update_var" /\ ~Mismatch(last) /\ HostAccepted(last) /\ Storable(last)) =>
        LET r == get_var(last.T, last.hdata, last.name)
        IN /\ r.ret.tag = "Some"
           /\ r.ret.val = last.value

\* C4 (as claimed): every update_var call makes one side-table, stages the
\* one entry name -> text, commits once against the table's schema handle
\* and backing object, in that order, and returns the count of that commit.
C4_WriteProtocol ==
    last.op = "update_var" =>
        /\ Fns(last.calls) = <<"hashtable_new", "hashtable_set", "hdata_update">>
        /\ last.staged # NoSide
        /\ Len(last.staged.entries) = 1
        /\ last.staged.entries[1][1] = LossyCString(last.name)
        /\ last.calls[3].args = <<last.hdata.ptr, last.hdata.object, last.staged.ptr>>
        /\ last.ret.tag = "count"

IsDecimal(t) ==
    LET d == IF Len(t) > 0 /\ t[1] = 45 THEN Tail(t) ELSE t
    IN Len(d) > 0 /\ \A i \in 1..Len(d) : IsDigit(d[i])

\* The number a value of a numeric, time or pointer type stands for.
NumberOf(T, v) ==
    CASE T = "DateTime" -> v.secs
      [] T = "HDataPointer" -> v.ptr
      [] OTHER -> v

\* The scalar value a UTF-8 text of one character encodes.
Utf8Scalar(t) ==
    CASE Len(t) = 1 -> t[1]
      [] Len(t) = 2 -> (t[1] - 192) * 64 + (t[2] - 128)
      [] Len(t) = 3 -> (t[1] - 224) * 4096 + (t[2] - 128) * 64 + (t[3] - 128)
      [] OTHER -> 0 - 1

StagedText(call) == call.staged.entries[1][2]

\* C5 (as claimed): string keys; String values in a string-kind side-table,
\* values of every other type as decimal text in an integer-kind side-table.
C5_CharStagedAsInteger ==
    (last.op = "update_var" /\ last.staged # NoSide) =>
        /\ last.staged.key_type = "string"
        /\ (last.T = "String" => last.staged.value_type = "string")
        /\ (last.T # "String" =>
               /\ last.staged.value_type = "integer"
               /\ IsDecimal(StagedText(last)))

\* C5 (amended): string keys; String and Char values are staged as their own
\* text (the character's UTF-8 form, not a number) in a string-kind
\* side-table; Integer32, Integer64, Time and Pointer values are staged as
\* the decimal text of their number in an integer-kind side-table.
C5_SideTableKinds ==
    (last.op = "update_var" /\ last.staged # NoSide) =>
        /\ last.staged.key_type = "string"
        /\ (last.T = "String" =>
               /\ last.staged.value_type = "string"
               /\ StagedText(last) = SelectSeq(last.value, LAMBDA b : b # 0))
        /\ (last.T = "char" =>
               /\ last.staged.value_type = "string"
               /\ Utf8Scalar(StagedText(last)) = last.value)
        /\ (last.T \in {"i32", "i64", "DateTime", "HDataPointer"} =>
               /\ last.staged.value_type = "integer"
               /\ IsDecimal(StagedText(last))
               /\ ParseDecimal(StagedText(last)).val = NumberOf(last.T, last.value))

\* A Char and a Pointer have both been staged.
C5_Witness ==
    /\ last.op = "update_var"
    /\ last.staged # NoSide
    /\ last.T = "HDataPointer"
    /\ last.staged.value_type = "integer"
    /\ StagedText(last) = <<50>>

(***************************************************************************)
(* Properties of the capsule (specification SpecCapsule)                   *)
(***************************************************************************)
\* C6: with the proof token on the main context only, a capsule goes from
\* Sealed only to Unsealed, and only by an unseal run on the context that
\* holds the token; while it is Sealed, wherever it is sent, its inner value
\* is neither handed out nor changed; once Unsealed it stays as it is.
C6_SealedUntilProof ==
    /\ [](\A c \in DOMAIN capsules :
            /\ capsules[c].state \in {"Sealed", "Unsealed"}
            /\ (capsules[c].state = "Sealed" =>
                   /\ capsules[c].got = "-"
                   /\ capsules[c].by = "-"
                   /\ capsules[c].cell.inner = capsules[c].x)
            /\ (capsules[c].state = "Unsealed" =>
                   /\ Proofs(capsules[c].by) # {}
                   /\ capsules[c].at = capsules[c].by))
    /\ [][\A c \in DOMAIN capsules :
            /\ (capsules[c].state = "Sealed" /\ capsules'[c].state # "Sealed") =>
                  /\ capsules'[c].state = "Unsealed"
                  /\ Proofs(capsules'[c].by) # {}
                  /\ capsules[c].at = capsules'[c].by
            /\ capsules[c].state = "Unsealed" => capsules'[c] = capsules[c]]_vars

\* A capsule that went to a background thread and was unsealed on main.
C6_Witness ==
    \E c \in DOMAIN capsules :
        /\ capsules[c].state = "Unsealed"
        /\ "bg1" \in capsules[c].seen
        /\ capsules[c].by = "main"

\* C7: unseal returns the value that was sealed, and consumes the capsule:
\* a capsule is redeemed at most once and is no longer sealed afterwards.
C7_UnsealReturnsAndConsumes ==
    \A c \in DOMAIN capsules :
        /\ redeemed[c] <= 1
        /\ (redeemed[c] = 1 <=> capsules[c].state = "Unsealed")
        /\ (redeemed[c] = 1 => capsules[c].got = capsules[c].x)

C7_Witness ==
    \E c \in DOMAIN capsules :
        /\ redeemed[c] = 1
        /\ capsules[c].got = "b"
        /\ capsules[c].x = "b"

(***************************************************************************)
(* Properties of traversal (specification SpecTraverse)                    *)
(***************************************************************************)
\* C8: advance returns None exactly when the host's move gives null (the
\* target is off the list); otherwise a reference with the moved address
\* and the original's host handle.  The original reference and the table
\* are as they were.
C8_AdvanceResultAndFrame ==
    /\ [](last.op = "advance" =>
            LET moved == HostMove(last.hdata.ptr, last.self.ptr, last.count) IN
            /\ (last.ret.tag = "None" <=> moved = Null)
            /\ (last.self.ptr \in Objects /\ (last.self.ptr + last.count) \notin Objects
                   => last.ret.tag = "None")
            /\ (last.ret.tag # "None" =>
                   /\ last.ret.tag = "Some"
                   /\ last.ret.val.ptr = moved
                   /\ moved # Null
                   /\ last.ret.val.weechat = last.self.weechat))
    /\ [][(last'.op = "advance" /\ last' # last) =>
            /\ cur' = cur
            /\ hd' = hd
            /\ cur' = last'.self
            /\ hd' = last'.hdata]_vars

\* Stepping +1 from the last element of the list, with a reference whose
\* handle is not the table's.
C8_Witness ==
    /\ last.op = "advance"
    /\ last.self.ptr = NObjects
    /\ last.count = 1
    /\ last.ret.tag = "None"
    /\ last.self.weechat # last.hdata.weechat_ptr

\* Every typed read through every table a reference opens.
ReadsOf(ref) ==
    [n \in SchemaNames |->
        LET t == get_hdata_HDataPointer(ref, n).ret IN
        IF t.tag = "None" THEN <<>>
        ELSE <<[T \in Types |-> [f \in FieldNames |-> get_var(T, t.val, f).ret]]>>]

\* C9: advance(ref, 0) gives a reference with the same reads as ref, and
\* advance(ref, N) followed by advance(result, -N), both valid, gives a
\* reference with the same reads as ref.
C9_AdvanceAdditive ==
    (last.op = "advance" /\ last.ret.tag = "Some") =>
        /\ (last.count = 0 => ReadsOf(last.ret.val) = ReadsOf(last.self))
        /\ LET back == advance(last.ret.val, last.hdata, 0 - last.count).ret IN
           back.tag = "Some" =>
              /\ ReadsOf(back.val) = ReadsOf(last.self)
              /\ back.val = last.self

C9_Witness ==
    /\ last.op = "advance"
    /\ last.ret.tag = "Some"
    /\ last.count = 2
    /\ last.self.ptr # last.hdata.object
    /\ advance(last.ret.val, last.hdata, 0 - 2).ret.tag = "Some"

\* C10: get_hdata, on a Buffer and on an HDataPointer, makes one host call,
\* the schema lookup; it returns None exactly when the host does not know
\* the name, and otherwise a table of the host's schema handle, the caller's
\* backing object and the caller's host handle.
C10_GetHData ==
    last.op = "get_hdata" =>
        LET schema == HostHDataGet(LossyCString(last.name)) IN
        /\ Len(last.calls) = 1
        /\ last.calls[1] = Call("hdata_get", <<last.self.weechat, LossyCString(last.name)>>)
        /\ (last.ret.tag = "None" <=> schema = Null)
        /\ (schema # Null =>
               last.ret = Some([weechat_ptr |-> last.self.weechat,
                                object |-> last.self.ptr,
                                ptr |-> schema]))

C10_Witness ==
    /\ last.op = "get_hdata"
    /\ last.T = "HDataPointer"
    /\ last.self.ptr = 3
    /\ last.self.weechat = 2
    /\ last.ret.tag = "Some"
    /\ last.ret.val.ptr = 2

(***************************************************************************)
(* Absent conditions (specification Spec)                                  *)
(***************************************************************************)
\* C11 (as claimed): whatever the host answers, get_var, update_var,
\* get_hdata and advance return None, a value or the host's count, and
\* never panic.
C11_NeverPanics ==
    last.op \in {"get_var", "update_var", "get_hdata", "advance"} =>
        /\ last.ret # Panic
        /\ last.ret.tag \in {"Some", "None", "count"}

(***************************************************************************)
(* Reads against a changing host (specification SpecLive)                  *)
(***************************************************************************)
\* What a plugin sees of a raw host value of T's kind, through a table of
\* host handle w.
Seen(T, raw, w) ==
    CASE T = "String" -> IF raw.null THEN None ELSE Some(ToStringLossy(raw.bytes))
      [] T = "char" -> IF cCharSigned /\ raw >= 128 THEN None ELSE Some(raw)
      [] T \in {"i32", "i64"} -> Some(raw)
      [] T = "DateTime" -> Some([secs |-> raw, nanos |-> 0])
      [] T = "HDataPointer" -> Some([ptr |-> raw, weechat |-> w])

\* C12: every get_var call of a field of T's kind asks the host, with the
\* kind query and the read of the table's object, and returns what the
\* field holds at that moment, whatever the host wrote to it before and
\* whatever earlier reads returned.
C12_LiveView ==
    (last.op = "get_var" /\ ~Mismatch(last) /\ last.hdata.object \in Objects) =>
        /\ Len(last.calls) = 2
        /\ last.calls[1] = Call("hdata_get_var_type",
                                <<last.hdata.ptr, LossyCString(last.name)>>)
        /\ last.calls[2].args =
               <<last.hdata.ptr, last.hdata.object, LossyCString(last.name)>>
        /\ last.ret = Seen(last.T, store[last.hdata.object], last.hdata.weechat_ptr)

\* A read that returns the value the host wrote after the plugin started,
\* where the field held another value at the start.
C12_Witness ==
    /\ last.op = "get_var"
    /\ last.T = "i64"
    /\ ~Mismatch(last)
    /\ last.hdata.object \in Objects
    /\ store[last.hdata.object] # InitRaw(kind, last.hdata.object)
    /\ last.ret = Some(store[last.hdata.object])

(***************************************************************************)
(* Tables over any sequence of calls (specification SpecAll)               *)
(***************************************************************************)
FieldReads == {"hdata_string", "hdata_char", "hdata_integer", "hdata_long",
               "hdata_time", "hdata_pointer"}

\* C13: a table is never changed by get_var, update_var, get_hdata or
\* advance: the table the plugin holds changes only when the plugin binds
\* a newly opened one, and then it holds the schema handle, backing object
\* and host handle get_hdata gave it.  Every kind query, field read and
\* bulk commit (and every move) issued through a table passes that table's
\* schema handle, and the reads and commits its backing object.
C13_TablesFixed ==
    /\ [](last.op \in {"get_var", "update_var", "advance"} =>
            \A i \in 1..Len(last.calls) :
               LET c == last.calls[i] IN
               /\ c.fn \in {"hdata_get_var_type", "hdata_move"} =>
                     c.args[1] = last.hdata.ptr
               /\ c.fn \in FieldReads \cup {"hdata_update"} =>
                     /\ c.args[1] = last.hdata.ptr
                     /\ c.args[2] = last.hdata.object)
    /\ [][/\ (last' # last /\ last'.op \in {"get_var", "update_var", "advance"}) =>
                (hd' = hd /\ last'.hdata = hd)
          /\ (last' # last /\ last'.op = "get_hdata") => hd' = hd
          /\ hd' # hd =>
                /\ last' = last
                /\ last.op = "get_hdata"
                /\ last.ret = Some(hd')
                /\ hd'.weechat_ptr = last.self.weechat
                /\ hd'.object = last.self.ptr
                /\ hd'.ptr = HostHDataGet(LossyCString(last.name))]_vars

\* A move through a table that was opened from a reference, not from the
\* buffer, after a write changed a field.
C13_Witness ==
    /\ last.op = "advance"
    /\ last.ret.tag = "Some"
    /\ last.hdata = hd
    /\ hd.object # 1
    /\ Written # {}

====
